---- MODULE Spec2Model ----
(***************************************************************************)
(* vdifil: conversion of two 2-bit VDIF polarisation streams into a        *)
(* filterbank power stream (src/vdifil.cu).                                *)
(*                                                                         *)
(* The module holds the host pipeline of main() (specification Spec) and   *)
(* the device kernels followed lane by lane (SpecDecode, SpecUnpack,       *)
(* SpecDetect, SpecQuant) or as interleaved lanes of one work-group        *)
(* (SpecGroup).  Floating point values are kept exact: every value the     *)
(* models compute is an integer or an integer number of eighths, for which *)
(* the float operations of the source are exact.                           *)
(***************************************************************************)
EXTENDS Integers, Sequences, FiniteSets, TLC

VARIABLES
    \* ---- main(): the host pipeline
    pc,           \* position of main(): "open", "calib", "rewind", "produce", "done"
    scaling,      \* -s flag
    nbits,        \* filhead.nbits
    zeropayload,  \* TRUE: every payload byte of both inputs is 0; FALSE: other data
    filepola,     \* input stream a: [len, pos, fail]
    filepolb,     \* input stream b
    filelengtha,  \* tellg() at the end of a, taken once
    filelengthb,
    tmppola,      \* host buffer a: which frames it holds
    tmppolb,
    dmeans,       \* device vector of the per-channel means
    dstdevs,      \* device vector of the per-channel standard deviations
    processed,    \* running sample count of Phase 1
    filfile,      \* the power blocks written after the output header
    calibiters,   \* Phase 1 iterations executed
    mainiters,    \* Phase 2 iterations executed
    frozen,       \* <<dmeans, dstdevs>> as they were when Phase 1 ended
    \* ---- decoding of one byte (SpecDecode)
    inval,        \* the packed byte
    decoded,      \* the samples decoded from it so far, code position 0 first
    \* ---- one lane of UnpackKernel (SpecUnpack)
    ublock,       \* blockIdx.x
    uthread,      \* threadIdx.x
    upc,          \* "load", "store", "done"
    uisamp, uipol, uichunk,   \* the loop counters
    uidx,         \* idx
    uoutidx,      \* outidx
    uoutidx2,     \* outidx2
    ustore,       \* the last store to out[][]
    \* ---- one lane of DetectKernel (SpecDetect)
    kblock, kthread, kpc,
    kisamp,       \* isamp
    kinidx,       \* inidx
    koutidx,      \* outidx
    koutvalue,    \* outvalue, in eighths
    kreads,       \* the elements of in[][] read in the last pass
    kwrite,       \* the last store to out[]
    \* ---- the quantizer of DetectScaleKernel (SpecQuant)
    qpc, qpower, qmean, qstdev,
    qscaled,      \* scaled
    qcode,        \* the byte stored
    \* ---- lanes of one work-group of UnpackKernel, interleaved (SpecGroup)
    glane,        \* per lane: [pc, pass, ichunk]
    gincoming,    \* incoming[]: per slot, the pass whose byte it holds
    gread         \* the last read of incoming[]

pvars == <<pc, scaling, nbits, zeropayload, filepola, filepolb, filelengtha,
           filelengthb, tmppola, tmppolb, dmeans, dstdevs, processed, filfile,
           calibiters, mainiters, frozen>>

cvars == <<inval, decoded>>
uvars == <<ublock, uthread, upc, uisamp, uipol, uichunk, uidx, uoutidx,
           uoutidx2, ustore>>
kvars == <<kblock, kthread, kpc, kisamp, kinidx, koutidx, koutvalue, kreads,
           kwrite>>
qvars == <<qpc, qpower, qmean, qstdev, qscaled, qcode>>

gvars == <<glane, gincoming, gread>>

vars == <<pvars, cvars, uvars, kvars, qvars, gvars>>

----------------------------------------------------------------------------
(* Program constants                                                       *)

NACCUMULATE == 4000
PERBLOCK == 625
TIMEAVG == 16
UNPACKFACTOR == 4
VDIFSIZE == 8000
FFTOUT == 257
FFTUSE == 256
\* TIMESCALE is 0.125: values are kept as integer numbers of eighths
TimescaleDen == 8
\* the literals of the read loops and of the loop guards
HeaderBytes == 32
PayloadBytes == 8000
FrameBytes == 8032
CalibAccumulations == 5

toread == NACCUMULATE * 8000
unpackedsize == NACCUMULATE * VDIFSIZE * UNPACKFACTOR
fftedsize == (unpackedsize \div (2 * FFTUSE)) * FFTOUT
powersize == ((unpackedsize \div (2 * FFTUSE)) * FFTUSE) \div TIMEAVG

\* bytes one accumulation occupies in an input file
AccBytes == NACCUMULATE * FrameBytes

----------------------------------------------------------------------------
(* Bounds of the model                                                     *)

\* whole accumulations an input file holds at most
MaxAccs == 10
\* bytes by which the longest trailing block exceeds NACCUMULATE * 8000
TailExtra == 1
\* iterations after which a loop that does not end by itself is cut
MaxIter == MaxAccs + 2

Tails == {0, FrameBytes, toread, toread + TailExtra}
FileLengths == {k * AccBytes + t : k \in 0..MaxAccs, t \in Tails}
\* bit depths of the configuration header: 8, 32 and an unsupported one
HeaderBits == {8, 16, 32}

----------------------------------------------------------------------------
(* std::ifstream                                                           *)

Min(a, b) == IF a < b THEN a ELSE b

\* characters istream::read(n) extracts
Extracted(f, n) == IF f.fail THEN 0 ELSE Min(n, f.len - f.pos)

\* istream::read(n): a short read sets eofbit and failbit; nothing is
\* extracted from a stream that is not good
ReadBytes(f, n) ==
    IF f.fail THEN f
    ELSE IF f.pos + n <= f.len THEN [f EXCEPT !.pos = f.pos + n]
    ELSE [f EXCEPT !.pos = f.len, !.fail = TRUE]

\* istream::tellg(): -1 once failbit is set
Tellg(f) == IF f.fail THEN -1 ELSE f.pos

\* istream::seekg(off, beg): clears eofbit, does nothing once failbit is set
Seekg(f, off) == IF f.fail THEN f ELSE [f EXCEPT !.pos = off]

\* seekg(0, end) followed by tellg()
TellgEnd(f) == IF f.fail THEN -1 ELSE f.len

\* one pass of the frame loop on one stream: header, then payload.
\* r = [f: the stream, full: payloads read whole, part: bytes of a payload cut short]
ReadFrame(r) ==
    LET h == ReadBytes(r.f, HeaderBytes)
        got == Extracted(h, PayloadBytes)
        p == ReadBytes(h, PayloadBytes)
    IN  [f |-> p,
         full |-> r.full + (IF got = PayloadBytes THEN 1 ELSE 0),
         part |-> IF got > 0 /\ got < PayloadBytes THEN got ELSE r.part]

\* k passes of the frame loop.  A failed stream stays as it is; the passes
\* that find a whole frame left read it; the first pass that does not is
\* the one that hits the end of the file, and the passes after it find the
\* stream failed.
ReadFrames(r, k) ==
    IF k = 0 \/ r.f.fail THEN r
    ELSE LET w == Min(k, (r.f.len - r.f.pos) \div FrameBytes)
         IN  IF w = k
             THEN [r EXCEPT !.f.pos = @ + k * FrameBytes, !.full = @ + k]
             ELSE ReadFrame([r EXCEPT !.f.pos = @ + w * FrameBytes,
                                      !.full = @ + w])

\* the frame loop of one accumulation on one stream
ReadAccumulation(f) == ReadFrames([f |-> f, full |-> 0, part |-> 0], NACCUMULATE)

----------------------------------------------------------------------------
(* Host buffers tmppola, tmppolb                                           *)
(* [acc: accumulation read last (-1: none), full: its payloads present     *)
(*  whole in slots 0..full-1, part: bytes of the payload cut short in slot *)
(*  full, under: accumulation left in the other slots (-1: never written)] *)

NoAcc == 0 - 1
Uninitialised == [acc |-> NoAcc, full |-> 0, part |-> 0, under |-> NoAcc]

\* the buffer after the frame loop r, which started on stream f
Filled(buf, f, r) ==
    IF r.full = 0 /\ r.part = 0 THEN buf
    ELSE IF r.full = NACCUMULATE
         THEN [acc |-> f.pos \div AccBytes, full |-> NACCUMULATE, part |-> 0,
               under |-> NoAcc]
    ELSE [acc |-> f.pos \div AccBytes, full |-> r.full, part |-> r.part,
          under |-> IF buf.full = NACCUMULATE THEN buf.acc ELSE buf.under]

\* the buffer holds accumulation k and nothing else
HoldsAcc(buf, k) == buf.acc = k /\ buf.full = NACCUMULATE

\* every byte of the buffer is known to be 0
AllZero(buf) ==
    /\ zeropayload
    /\ buf.acc # NoAcc
    /\ buf.full = NACCUMULATE \/ buf.under # NoAcc

----------------------------------------------------------------------------
(* Device arithmetic shared by the kernels                                 *)

RECURSIVE BitAnd(_, _)
BitAnd(a, b) ==
    IF a = 0 \/ b = 0 THEN 0
    ELSE (a % 2) * (b % 2) + 2 * BitAnd(a \div 2, b \div 2)

RECURSIVE Pow2(_)
Pow2(n) == IF n = 0 THEN 1 ELSE 2 * Pow2(n - 1)

ShiftRight(a, n) == a \div Pow2(n)

\* static_cast<short> of an int
ToShort(x) == ((x + Pow2(15)) % Pow2(16)) - Pow2(15)

\* __constant__ kMask[], indexed from 0 in the source
kMask == <<3, 12, 48, 192>>

\* a decode that shifts by tmod instead of 2 * tmod
DecodeShiftShort(byte, tmod) == ToShort(ShiftRight(BitAnd(byte, kMask[tmod + 1]), tmod))

\* the sample UnpackKernel stores for code position tmod of the byte inval
Decode(byte, tmod) == ToShort(ShiftRight(BitAnd(byte, kMask[tmod + 1]), 2 * tmod))

\* a float held as a number of eighths, and outvalue *= TIMESCALE on it
ToEighths(x) == x * TimescaleDen
MulTimescale(x8) == x8 \div TimescaleDen

\* the value DetectKernel stores, in eighths, for the sum of the 2 * TIMEAVG
\* squared magnitudes it has read
DetectValue(sum) == MulTimescale(ToEighths(sum))

IntMax == (Pow2(30) - 1) * 2 + 1
IntMin == 0 - IntMax - 1

\* ceiling of a / b, b > 0
CeilDiv(a, b) == 0 - ((0 - a) \div b)

\* a conversion that rounds to nearest instead of up
ScaledValueNearest(outvalue, mean, stdev) ==
    IF stdev = 0
    THEN IF outvalue = mean THEN 0
         ELSE IF outvalue > mean THEN IntMax ELSE IntMin
    ELSE (2 * ((outvalue - mean) * 32 + 128 * stdev) + stdev) \div (2 * stdev)

\* __float2int_ru((outvalue - mean) / stdev * 32.0f + 128.0f).  A zero stdev
\* makes the quotient an infinity or, for outvalue = mean, a NaN: the
\* conversion saturates an infinity and turns a NaN into 0.
ScaledValue(outvalue, mean, stdev) ==
    IF stdev = 0
    THEN IF outvalue = mean THEN 0
         ELSE IF outvalue > mean THEN IntMax ELSE IntMin
    ELSE CeilDiv((outvalue - mean) * 32 + 128 * stdev, stdev)

\* the clamp of DetectScaleKernel
Clamp(scaled) == IF scaled > 255 THEN 255 ELSE IF scaled < 0 THEN 0 ELSE scaled

\* the byte DetectScaleKernel stores
ScaledCode(outvalue, mean, stdev) == Clamp(ScaledValue(outvalue, mean, stdev))

----------------------------------------------------------------------------
(* Power blocks and channel statistics of the pipeline                     *)
(* A value of the pipeline is [exact, val]: exact says the model knows the *)
(* number (it does for all-zero payloads, whose samples, spectra and       *)
(* powers are all 0), val is the number, the same for every channel and    *)
(* time step.  Values of other data are carried as exact = FALSE.          *)

Unknown == [exact |-> FALSE, val |-> 0]
Known(v) == [exact |-> TRUE, val |-> v]

\* a statistics vector: its value and the kernel launches that wrote it
StatsVector(v, n) == [exact |-> v.exact, val |-> v.val, writes |-> n]

\* raw power of one accumulation: unpack, transform, detect.  The transform
\* of an all-zero window is all zero.
RawPower(bufa, bufb) ==
    IF AllZero(bufa) /\ AllZero(bufb)
    THEN Known(DetectValue(2 * TIMEAVG * (Decode(0, 0) * Decode(0, 0))))
    ELSE Unknown

\* GetScalingFactorsKernel, the mean: the sample loop leaves a mean alone
\* that every sample equals (diff = 0 in each pass)
ScalingMean(indata, base) ==
    IF indata.exact /\ base.exact /\ indata.val = base.val
    THEN StatsVector(Known(base.val), base.writes + 1)
    ELSE StatsVector(Unknown, base.writes + 1)

\* GetScalingFactorsKernel, the stdev: estd starts from
\* stdev * stdev * (processed - 1), gains diff * (val - mean) = 0 per sample
\* when every sample equals the mean, and sqrtf(0 / (n - 1)) = 0
ScalingStdev(indata, base, stdev, nproc) ==
    IF indata.exact /\ base.exact /\ stdev.exact /\ indata.val = base.val
       /\ stdev.val * stdev.val * (nproc - 1) = 0
    THEN StatsVector(Known(0), stdev.writes + 1)
    ELSE StatsVector(Unknown, stdev.writes + 1)

\* a Phase 2 that fed its power block to the estimator again
StatsReestimated(stats, indata, nproc) == ScalingMean(indata, stats)

\* what one Phase 2 iteration leaves in a statistics vector: it launches no
\* kernel that writes it (DetectScaleKernel only reads means[] and stdevs[])
StatsAfterProduce(stats, indata, nproc) == stats

\* the detector main() launches in Phase 2 for a bit depth
DetectorFor(bits) == IF bits = 8 THEN "DetectScaleKernel" ELSE "DetectKernel"

\* the block one Phase 2 iteration appends to the output
\* (reada, readb: the payloads the iteration read whole)
PowerBlock(bufa, bufb, reada, readb, bits, means, stdevs) ==
    LET raw == RawPower(bufa, bufb)
        quant == DetectorFor(bits) = "DetectScaleKernel"
    IN  [a |-> bufa, b |-> bufb, reada |-> reada, readb |-> readb, kernel |-> DetectorFor(bits), raw |-> raw,
         out |-> IF ~quant THEN raw
                 ELSE IF raw.exact /\ means.exact /\ stdevs.exact
                      THEN Known(ScaledCode(raw.val, means.val, stdevs.val))
                      ELSE Unknown,
         means |-> means, stdevs |-> stdevs]

----------------------------------------------------------------------------
(* main()                                                                  *)

Stream(n) == [len |-> n, pos |-> 0, fail |-> FALSE]

\* the lanes of the kernel specifications, at rest
NoStore == [n |-> 0, pol |-> 0, base |-> 0, out |-> 0, slot |-> 0, byte |-> 0,
            actual |-> [pol |-> 0, byte |-> 0], tmod |-> 0, val |-> 0]
NoWrite == [idx |-> 0, val |-> 0]
DecodeIdle == inval = 0 /\ decoded = <<>>
UnpackIdle ==
    /\ ublock = 0 /\ uthread = 0 /\ upc = "idle"
    /\ uisamp = 0 /\ uipol = 0 /\ uichunk = 0
    /\ uidx = 0 /\ uoutidx = 0 /\ uoutidx2 = 0 /\ ustore = NoStore
DetectIdle ==
    /\ kblock = 0 /\ kthread = 0 /\ kpc = "idle" /\ kisamp = 0 /\ kinidx = 0
    /\ koutidx = 0 /\ koutvalue = 0 /\ kreads = {} /\ kwrite = NoWrite
QuantIdle ==
    /\ qpc = "idle" /\ qpower = 0 /\ qmean = 0 /\ qstdev = 0
    /\ qscaled = 0 /\ qcode = 0
NoByte == [pol |-> 0 - 1, byte |-> 0 - 1]
NoRead == [n |-> 0, lane |-> 0, pass |-> 0, slot |-> 0, got |-> NoByte]
GroupIdle == glane = <<>> /\ gincoming = <<>> /\ gread = NoRead
PipelineIdle ==
    /\ pc = "idle" /\ scaling = FALSE /\ nbits = 32 /\ zeropayload = FALSE
    /\ filepola = Stream(0) /\ filepolb = Stream(0)
    /\ filelengtha = 0 /\ filelengthb = 0
    /\ tmppola = Uninitialised /\ tmppolb = Uninitialised
    /\ dmeans = StatsVector(Known(0), 0) /\ dstdevs = StatsVector(Known(0), 0)
    /\ processed = 0 /\ filfile = <<>> /\ calibiters = 0 /\ mainiters = 0
    /\ frozen = <<StatsVector(Known(0), 0), StatsVector(Known(0), 0)>>
KernelsIdle == UNCHANGED <<cvars, uvars, kvars, qvars, gvars>>

PipelineInit ==
    /\ pc = "open"
    /\ scaling \in BOOLEAN
    /\ nbits \in HeaderBits
    /\ zeropayload \in BOOLEAN
    /\ \E la \in FileLengths : filepola = Stream(la)
    /\ \E lb \in FileLengths : filepolb = Stream(lb)
    /\ filelengtha = 0
    /\ filelengthb = 0
    /\ tmppola = Uninitialised
    /\ tmppolb = Uninitialised
    /\ dmeans = StatsVector(Known(0), 0)
    /\ dstdevs = StatsVector(Known(0), 0)
    /\ processed = 0
    /\ filfile = <<>>
    /\ calibiters = 0
    /\ mainiters = 0
    /\ frozen = <<StatsVector(Known(0), 0), StatsVector(Known(0), 0)>>

\* lines 244..408: header, first frame header of both inputs, the lengths,
\* the buffers, the output header, the zeroed statistics vectors
Open ==
    /\ pc = "open"
    /\ KernelsIdle
    /\ nbits' = IF scaling THEN 8 ELSE nbits
    /\ LET ha == ReadBytes(filepola, HeaderBytes)
           hb == ReadBytes(filepolb, HeaderBytes)
       IN  /\ filelengtha' = TellgEnd(ha)
           /\ filelengthb' = TellgEnd(hb)
           /\ filepola' = Seekg(ha, 0)
           /\ filepolb' = Seekg(hb, 0)
    /\ pc' = IF scaling THEN "calib" ELSE "rewind"
    /\ UNCHANGED <<scaling, zeropayload, tmppola, tmppolb, dmeans, dstdevs,
                   processed, filfile, calibiters, mainiters, frozen>>

\* the guard of the Phase 1 loop
CalibGuard(fa, fb) ==
    /\ Tellg(fa) < CalibAccumulations * NACCUMULATE * FrameBytes
    /\ Tellg(fb) < CalibAccumulations * NACCUMULATE * FrameBytes

\* a Phase 2 guard that counts the frame headers of an accumulation
ProduceGuardFramed(fa, fb, lengtha, lengthb) ==
    /\ Tellg(fa) < lengtha - NACCUMULATE * FrameBytes
    /\ Tellg(fb) < lengthb - NACCUMULATE * FrameBytes

\* the guard of the Phase 2 loop
ProduceGuard(fa, fb, lengtha, lengthb) ==
    /\ Tellg(fa) < lengtha - NACCUMULATE * 8000
    /\ Tellg(fb) < lengthb - NACCUMULATE * 8000

\* one iteration of the Phase 1 loop
CalibIter ==
    /\ pc = "calib"
    /\ KernelsIdle
    /\ CalibGuard(filepola, filepolb)
    /\ calibiters < MaxIter
    /\ LET ra == ReadAccumulation(filepola)
           rb == ReadAccumulation(filepolb)
           bufa == Filled(tmppola, filepola, ra)
           bufb == Filled(tmppolb, filepolb, rb)
           tmpdpower == RawPower(bufa, bufb)
       IN  /\ filepola' = ra.f
           /\ filepolb' = rb.f
           /\ tmppola' = bufa
           /\ tmppolb' = bufb
           /\ dmeans' = ScalingMean(tmpdpower, dmeans)
           /\ dstdevs' = ScalingStdev(tmpdpower, dmeans, dstdevs, processed)
    /\ processed' = processed + (powersize \div FFTUSE)
    /\ calibiters' = calibiters + 1
    /\ UNCHANGED <<pc, scaling, nbits, zeropayload, filelengtha, filelengthb,
                   filfile, mainiters, frozen>>

\* the Phase 1 loop ends: the statistics go to mean_stdev.dat
CalibEnd ==
    /\ pc = "calib"
    /\ KernelsIdle
    /\ ~CalibGuard(filepola, filepolb)
    /\ pc' = "rewind"
    /\ UNCHANGED <<scaling, nbits, zeropayload, filepola, filepolb, filelengtha,
                   filelengthb, tmppola, tmppolb, dmeans, dstdevs, processed,
                   filfile, calibiters, mainiters, frozen>>

\* lines 487..488: both inputs back to offset 0
Rewind ==
    /\ pc = "rewind"
    /\ KernelsIdle
    /\ filepola' = Seekg(filepola, 0)
    /\ filepolb' = Seekg(filepolb, 0)
    /\ frozen' = <<dmeans, dstdevs>>
    /\ pc' = "produce"
    /\ UNCHANGED <<scaling, nbits, zeropayload, filelengtha, filelengthb,
                   tmppola, tmppolb, dmeans, dstdevs, processed, filfile,
                   calibiters, mainiters>>

\* one iteration of the Phase 2 loop
ProduceIter ==
    /\ pc = "produce"
    /\ KernelsIdle
    /\ ProduceGuard(filepola, filepolb, filelengtha, filelengthb)
    /\ mainiters < MaxIter
    /\ LET ra == ReadAccumulation(filepola)
           rb == ReadAccumulation(filepolb)
           bufa == Filled(tmppola, filepola, ra)
           bufb == Filled(tmppolb, filepolb, rb)
           blk == PowerBlock(bufa, bufb, ra.full, rb.full, nbits, dmeans, dstdevs)
       IN  /\ filepola' = ra.f
           /\ filepolb' = rb.f
           /\ tmppola' = bufa
           /\ tmppolb' = bufb
           /\ filfile' = Append(filfile, blk)
           /\ dmeans' = StatsAfterProduce(dmeans, blk.raw, processed)
           /\ dstdevs' = StatsAfterProduce(dstdevs, blk.raw, processed)
    /\ mainiters' = mainiters + 1
    /\ UNCHANGED <<pc, scaling, nbits, zeropayload, filelengtha, filelengthb,
                   processed, calibiters, frozen>>

\* the Phase 2 loop ends and main() returns
ProduceEnd ==
    /\ pc = "produce"
    /\ KernelsIdle
    /\ ~ProduceGuard(filepola, filepolb, filelengtha, filelengthb)
    /\ pc' = "done"
    /\ UNCHANGED <<scaling, nbits, zeropayload, filepola, filepolb, filelengtha,
                   filelengthb, tmppola, tmppolb, dmeans, dstdevs, processed,
                   filfile, calibiters, mainiters, frozen>>

Init ==
    PipelineInit /\ DecodeIdle /\ UnpackIdle /\ DetectIdle /\ QuantIdle
    /\ GroupIdle

Next == Open \/ CalibIter \/ CalibEnd \/ Rewind \/ ProduceIter \/ ProduceEnd

Spec == Init /\ [][Next]_vars

----------------------------------------------------------------------------
(* Decoding of one packed byte: the four stores of UnpackKernel that read  *)
(* the same staged byte, code position 0 first                             *)

Bytes == 0..255
CodePositions == 0..3

DecodeInit ==
    /\ inval \in Bytes /\ decoded = <<>>
    /\ PipelineIdle /\ UnpackIdle /\ DetectIdle /\ QuantIdle /\ GroupIdle

DecodeStep ==
    /\ Len(decoded) < 4
    /\ decoded' = Append(decoded, Decode(inval, Len(decoded)))
    /\ UNCHANGED <<inval, pvars, uvars, kvars, qvars, gvars>>

SpecDecode == DecodeInit /\ [][DecodeStep]_vars

\* the byte whose 2-bit codes at bit positions 0, 2, 4, 6 are c
Reencode(c) == c[1] + 4 * c[2] + 16 * c[3] + 64 * c[4]

\* C6: the four values decoded from a byte are 2-bit codes and, put back at
\* bit positions 0, 2, 4, 6, give the byte again.
C6_DecodeBijective ==
    /\ \A i \in 1..Len(decoded) : decoded[i] \in 0..3
    /\ Len(decoded) = 4 => Reencode(decoded) = inval

C6_Witness == Len(decoded) = 4 /\ inval = 228 /\ decoded = <<0, 1, 2, 3>>

----------------------------------------------------------------------------
(* One lane of UnpackKernel<<<50, 1024>>>(devpol, devunpacked, toread)     *)
(* The lane is followed store by store.  The other lanes of its work-group *)
(* run the same code: lane j stages byte idx - threadIdx.x + j of the      *)
(* current polarisation in incoming[j].  Nothing orders a lane's next load *)
(* after the reads of the other lanes, so a read of incoming[j] returns    *)
(* either that byte or the one lane j stages next.                         *)

UnpackBlocks == 50
UnpackThreads == 1024

\* lanes followed at either end of a work-group
UnpackLanes == 8

UnpackLaneSet ==
    {t \in 0..(UnpackThreads - 1) :
        t < UnpackLanes \/ t >= UnpackThreads - UnpackLanes}
UnpackBlockSet == {0, UnpackBlocks - 1}

\* a byte pattern of the input buffers in[ipol][]
InByte(ipol, i) == (i * 7 + ipol * 3 + (i \div 1024)) % 256

\* line 66, line 72 and line 67
FirstIdx(b, t) == b * UnpackThreads * PERBLOCK + t
FirstOutIdx(b) == b * UnpackThreads * PERBLOCK * 4
Tmod(t) == t % 4

\* a staging index that takes the lane's own quarter
StageSlotOwnQuarter(t, ichunk) == (t % 256) + ichunk * 256

\* line 81: the staging slot the lane reads for chunk ichunk
StageSlot(t, ichunk) == (t \div 4) + ichunk * 256

\* the byte lane j stages in the pass <<isamp, ipol>> of the tracked lane,
\* whose own index is idx
StagedByte(idx, t, j) == idx - t + j

\* the pass after <<isamp, ipol>>, if there is one
LastPass(isamp, ipol) == isamp = PERBLOCK - 1 /\ ipol = 1

\* what a read of incoming[slot] can return: [pol, byte] of the input
StageReads(idx, t, isamp, ipol, slot) ==
    {[pol |-> ipol, byte |-> StagedByte(idx, t, slot)]}
    \cup (IF slot = t \/ LastPass(isamp, ipol) THEN {}
          ELSE IF ipol = 0
               THEN {[pol |-> 1, byte |-> StagedByte(idx, t, slot)]}
               ELSE {[pol |-> 0,
                      byte |-> StagedByte(idx, t, slot) + UnpackThreads]})

UnpackInit ==
    /\ ublock \in UnpackBlockSet
    /\ uthread \in UnpackLaneSet
    /\ upc = "load"
    /\ uisamp = 0 /\ uipol = 0 /\ uichunk = 0
    /\ uidx = FirstIdx(ublock, uthread)
    /\ uoutidx = FirstOutIdx(ublock)
    /\ uoutidx2 = 0
    /\ ustore = NoStore
    /\ PipelineIdle /\ DecodeIdle /\ DetectIdle /\ QuantIdle /\ GroupIdle

\* lines 74..79: the loop test, the load into incoming[], the barrier
UnpackLoad ==
    /\ upc = "load"
    /\ IF uisamp >= PERBLOCK
       THEN /\ upc' = "done"
            /\ UNCHANGED <<uoutidx2, uichunk, uisamp, uidx, uoutidx>>
       ELSE IF uidx < toread
            THEN /\ upc' = "store"
                 /\ uoutidx2' = uoutidx + uthread
                 /\ uichunk' = 0
                 /\ UNCHANGED <<uisamp, uidx, uoutidx>>
            ELSE /\ uisamp' = uisamp + 1
                 /\ uidx' = uidx + UnpackThreads
                 /\ uoutidx' = uoutidx + UnpackThreads * 4
                 /\ UNCHANGED <<upc, uoutidx2, uichunk>>
    /\ UNCHANGED <<ublock, uthread, uipol, ustore>>
    /\ UNCHANGED <<pvars, cvars, kvars, qvars, gvars>>

\* lines 81..84: one store, and the control that follows the fourth
UnpackStore ==
    /\ upc = "store"
    /\ \E rd \in StageReads(uidx, uthread, uisamp, uipol,
                            StageSlot(uthread, uichunk)) :
          ustore' = [n |-> ustore.n + 1, pol |-> uipol, base |-> uoutidx,
                     out |-> uoutidx2,
                     slot |-> StageSlot(uthread, uichunk),
                     byte |-> StagedByte(uidx, uthread,
                                         StageSlot(uthread, uichunk)),
                     actual |-> rd,
                     tmod |-> Tmod(uthread),
                     val |-> Decode(InByte(rd.pol, rd.byte), Tmod(uthread))]
    /\ uoutidx2' = uoutidx2 + 1024
    /\ IF uichunk < 3
       THEN /\ uichunk' = uichunk + 1
            /\ UNCHANGED <<upc, uipol, uisamp, uidx, uoutidx>>
       ELSE /\ uichunk' = 0
            /\ upc' = "load"
            /\ IF uipol = 0
               THEN uipol' = 1 /\ UNCHANGED <<uisamp, uidx, uoutidx>>
               ELSE /\ uipol' = 0
                    /\ uisamp' = uisamp + 1
                    /\ uidx' = uidx + UnpackThreads
                    /\ uoutidx' = uoutidx + UnpackThreads * 4
    /\ UNCHANGED <<ublock, uthread>>
    /\ UNCHANGED <<pvars, cvars, kvars, qvars, gvars>>

UnpackNext == UnpackLoad \/ UnpackStore

SpecUnpack == UnpackInit /\ [][UnpackNext]_vars

Stored == ustore.n > 0
\* the lane and the position of the store of code position c of the byte in
\* staging slot j, by lines 79..84
LaneOfCode(j, c) == 4 * (j % 256) + c
PositionOfCode(outidx, j, c) == outidx + LaneOfCode(j, c) + 1024 * (j \div 256)
QuarterStride == (UnpackThreads * 4) \div 4

\* C5 as stated: the four samples of one byte are stored a quarter of the
\* pass output (1024 samples) apart, and not at 4 * byte index + code
\* position.
C5_StrideInterleaved ==
    Stored =>
        /\ ustore.out # 4 * ustore.byte + ustore.tmod
        /\ ustore.out - PositionOfCode(ustore.base, ustore.slot, 0)
              = ustore.tmod * QuarterStride

\* C5 as amended: the sample of code position c of input byte i is stored
\* at output index 4 * i + c, so the four samples of one byte take four
\* consecutive output positions; the stride of 1024 separates the four
\* stores of one lane, which decode four different bytes.
C5_Sequential ==
    Stored =>
        /\ ustore.out = 4 * ustore.byte + ustore.tmod
        /\ \A c \in CodePositions :
              PositionOfCode(ustore.base, ustore.slot, c) = 4 * ustore.byte + c
        /\ ustore.out \in 0..(unpackedsize - 1)

C5_Witness ==
    /\ Stored /\ ublock = UnpackBlocks - 1 /\ uisamp = PERBLOCK - 1
    /\ ustore.pol = 1 /\ ustore.tmod = 3 /\ ustore.slot >= 512
    /\ ustore.out = 4 * ustore.byte + 3

----------------------------------------------------------------------------
(* One lane of DetectKernel<<<25, FFTUSE>>>(devffted, out)                 *)
(* The lane is followed pass by pass of its isamp loop.  Values are kept   *)
(* in eighths.                                                             *)

DetectBlocks == 25
DetectThreads == FFTUSE

\* lanes followed at either end of a work-group, and work-groups followed
\* at the start of the grid (the last one is always followed)
DetectLanes == 32
DetectGroups == 2

DetectLaneSet ==
    {t \in 0..(DetectThreads - 1) :
        t < DetectLanes \/ t >= DetectThreads - DetectLanes}
DetectBlockSet ==
    {b \in 0..(DetectBlocks - 1) : b < DetectGroups \/ b = DetectBlocks - 1}

\* a pattern of the spectra in[ipol][]: real and imaginary part of element i
InRe(ipol, i) == (i + 2 * ipol + (i \div FFTOUT)) % 3
InIm(ipol, i) == ((i \div 5) + ipol) % 2
\* polval.x * polval.x + polval.y * polval.y, in eighths
MagSq(ipol, i) ==
    ToEighths(InRe(ipol, i) * InRe(ipol, i) + InIm(ipol, i) * InIm(ipol, i))

\* lines 97 and 98
DetectFirstOut(b, t) == b * PERBLOCK * FFTUSE + FFTUSE - t - 1
DetectFirstIn(b, t) == b * PERBLOCK * TIMEAVG * FFTOUT + t + 1

\* line 108: the elements of in[][] one pass reads
PassReads(inidx) ==
    {<<ipol, inidx + iavg * FFTOUT>> : ipol \in 0..1, iavg \in 0..(TIMEAVG - 1)}

RECURSIVE SumMagSq(_)
SumMagSq(rs) ==
    IF rs = {} THEN 0
    ELSE LET r == CHOOSE x \in rs : TRUE
         IN  MagSq(r[1], r[2]) + SumMagSq(rs \ {r})

\* an accumulator that is not cleared after the store
AccumulatorKept(stored) == stored

\* line 117: the accumulator after the store
AccumulatorAfterStore(stored) == 0

DetectInit ==
    /\ kblock \in DetectBlockSet
    /\ kthread \in DetectLaneSet
    /\ kpc = "loop"
    /\ kisamp = 0
    /\ kinidx = DetectFirstIn(kblock, kthread)
    /\ koutidx = DetectFirstOut(kblock, kthread)
    /\ koutvalue = 0
    /\ kreads = {}
    /\ kwrite = NoWrite
    /\ PipelineIdle /\ DecodeIdle /\ UnpackIdle /\ QuantIdle /\ GroupIdle

\* lines 103..118: one pass of the isamp loop
DetectPass ==
    /\ kpc = "loop"
    /\ kisamp < PERBLOCK
    /\ LET summed == koutvalue + SumMagSq(PassReads(kinidx))
           stored == MulTimescale(summed)
       IN  /\ kreads' = PassReads(kinidx)
           /\ kwrite' = [idx |-> koutidx, val |-> stored]
           /\ koutvalue' = AccumulatorAfterStore(stored)
    /\ kinidx' = kinidx + FFTOUT * TIMEAVG
    /\ koutidx' = koutidx + FFTUSE
    /\ kisamp' = kisamp + 1
    /\ UNCHANGED <<kblock, kthread, kpc>>
    /\ UNCHANGED <<pvars, cvars, uvars, qvars, gvars>>

\* the loop ends
DetectEnd ==
    /\ kpc = "loop"
    /\ kisamp >= PERBLOCK
    /\ kpc' = "done"
    /\ UNCHANGED <<kblock, kthread, kisamp, kinidx, koutidx, koutvalue,
                   kreads, kwrite>>
    /\ UNCHANGED <<pvars, cvars, uvars, qvars, gvars>>

DetectNext == DetectPass \/ DetectEnd

SpecDetect == DetectInit /\ [][DetectNext]_vars

\* the time step and the transform bin of the lane's last store
StepOf(b, isamp) == b * PERBLOCK + isamp
BinOf(t) == t + 1
\* element bin of spectrum n
Element(n, bin) == n * FFTOUT + bin
RECURSIVE SumOver(_, _, _)
\* sum over both polarisations of |bin of spectrum n|^2, n = first..last
SumOver(first, last, bin) ==
    IF first > last THEN 0
    ELSE MagSq(0, Element(first, bin)) + MagSq(1, Element(first, bin))
         + SumOver(first + 1, last, bin)

\* C7: the store of time step s and bin k goes to index s * 256 + (256 - k)
\* and holds 1/8 of the sum over both polarisations and spectra
\* 16 s .. 16 s + 15 of |bin k|^2, nothing of an earlier step; a pass reads
\* exactly these 32 elements, never bin 0; the index is inside the block
\* and names the lane and the pass that wrote it, and the grid has as many
\* lane passes as the block has indices.
C7_DetectReversed ==
    kisamp > 0 =>
        LET s == StepOf(kblock, kisamp - 1)
            k == BinOf(kthread)
        IN  /\ s \in 0..15624 /\ k \in 1..256
            /\ kwrite.idx = s * 256 + (256 - k)
            /\ 8 * kwrite.val = SumOver(16 * s, 16 * s + 15, k)
            /\ kreads = {<<ipol, Element(n, k)>> :
                            ipol \in 0..1, n \in (16 * s)..(16 * s + 15)}
            /\ \A r \in kreads : r[2] % FFTOUT # 0 /\ r[2] < fftedsize
            /\ koutvalue = 0
            /\ kwrite.idx \in 0..(powersize - 1)
            /\ kblock = (kwrite.idx \div FFTUSE) \div PERBLOCK
            /\ kisamp - 1 = (kwrite.idx \div FFTUSE) % PERBLOCK
            /\ kthread = FFTUSE - 1 - (kwrite.idx % FFTUSE)
            /\ DetectBlocks * DetectThreads * PERBLOCK = powersize
            /\ powersize = 15625 * 256

C7_Witness ==
    /\ kpc = "done" /\ kblock = DetectBlocks - 1 /\ kthread = FFTUSE - 1
    /\ kwrite.idx = 15624 * 256 /\ kwrite.val > 0

----------------------------------------------------------------------------
(* The quantizer of DetectScaleKernel on one power value                   *)

MaxPower == 24
MaxMean == 12
MaxStdev == 3

QuantInit ==
    /\ qpc = "in"
    /\ qpower \in 0..MaxPower /\ qmean \in 0..MaxMean /\ qstdev \in 0..MaxStdev
    /\ qscaled = 0 /\ qcode = 0
    /\ PipelineIdle /\ DecodeIdle /\ UnpackIdle /\ DetectIdle /\ GroupIdle

\* lines 141..147
Quantize ==
    /\ qpc = "in"
    /\ qscaled' = ScaledValue(qpower, qmean, qstdev)
    /\ qcode' = Clamp(ScaledValue(qpower, qmean, qstdev))
    /\ qpc' = "out"
    /\ UNCHANGED <<qpower, qmean, qstdev, pvars, cvars, uvars, kvars, gvars>>

SpecQuant == QuantInit /\ [][Quantize]_vars

\* C8: for stdev > 0 the code is the least integer not below
\* (power - mean) / stdev * 32 + 128, clamped to 0..255; it is 128 at the
\* mean, 255 at mean + 4 stdev, 0 at mean - 4 stdev, and no smaller power
\* gets a larger code.  (y * stdev is written for the unclamped value.)
C8_CeilingQuantizer ==
    (qpc = "out" /\ qstdev > 0) =>
        LET ys == (qpower - qmean) * 32 + 128 * qstdev
        IN  /\ qcode \in 0..255
            /\ qcode = 0 => ys <= 0
            /\ qcode = 255 => ys > 254 * qstdev
            /\ qcode \in 1..254 =>
                  (qcode - 1) * qstdev < ys /\ ys <= qcode * qstdev
            /\ qpower = qmean => qcode = 128
            /\ qpower = qmean + 4 * qstdev => qcode = 255
            /\ qpower = qmean - 4 * qstdev => qcode = 0
            /\ \A p \in 0..MaxPower :
                  p <= qpower => ScaledCode(p, qmean, qstdev) <= qcode

\* a code strictly inside the range that the ceiling, not rounding to
\* nearest, decides: y = 128 + 64/3
C8_Witness ==
    /\ qpc = "out" /\ qstdev = 3 /\ qpower = qmean + 2 /\ qcode = 150


----------------------------------------------------------------------------
(* Claims about main()                                                     *)

Blocks == {filfile[i] : i \in 1..Len(filfile)}
OneAccumulationEach == filepola.len = AccBytes /\ filepolb.len = AccBytes

\* C1: every Phase 2 iteration reads 4000 whole frames from both inputs, so
\* no block of the output comes from a trailing partial accumulation.
C1_WholeAccumulationsOnly ==
    \A blk \in Blocks : blk.reada = NACCUMULATE /\ blk.readb = NACCUMULATE

C3_OneBlockPerAccumulation ==
    /\ Len(filfile) = mainiters
    /\ \A i \in 1..Len(filfile) :
          /\ HoldsAcc(filfile[i].a, i - 1) /\ filfile[i].reada = NACCUMULATE
          /\ HoldsAcc(filfile[i].b, i - 1) /\ filfile[i].readb = NACCUMULATE

\* C4: the statistics vectors are written once per Phase 1 iteration and by
\* nothing else; from the end of Phase 1 on they keep the values they had
\* then, and these are the values every quantizing Phase 2 iteration reads.
C4_StatsFrozen ==
    /\ dmeans.writes = calibiters /\ dstdevs.writes = calibiters
    /\ pc \in {"produce", "done"} =>
          /\ dmeans = frozen[1] /\ dstdevs = frozen[2]
          /\ \A blk \in Blocks : blk.means = frozen[1] /\ blk.stdevs = frozen[2]

C4_Witness ==
    /\ pc = "done" /\ scaling /\ calibiters = CalibAccumulations
    /\ Len(filfile) >= 2
    /\ \A blk \in Blocks : blk.kernel = "DetectScaleKernel"
    /\ ~zeropayload

\* C9: two all-zero inputs of 10 accumulations give the same raw power
\* everywhere and, calibrated on that input, the code 128 everywhere.
C9_ZeroInputGives128 ==
    (/\ zeropayload /\ scaling
     /\ filepola.len = 10 * AccBytes /\ filepolb.len = 10 * AccBytes)
    => \A blk \in Blocks :
          /\ blk.raw.exact
          /\ blk.out.exact /\ blk.out.val = 128

\* C10: the quantizing detector runs only when quantization is enabled and
\* the bit depth is 8; with quantization disabled the statistics vectors
\* stay zero and no kernel reads them.
C10_QuantizeOnlyWhenScaling ==
    /\ \A blk \in Blocks :
          blk.kernel = "DetectScaleKernel" => scaling /\ nbits = 8
    /\ ~scaling =>
          /\ dmeans = StatsVector(Known(0), 0)
          /\ dstdevs = StatsVector(Known(0), 0)
          /\ \A blk \in Blocks : blk.kernel # "DetectScaleKernel"

----------------------------------------------------------------------------
(* The reciprocal table of Phase 1 and the indices                         *)
(* GetScalingFactorsKernel reads from it                                   *)

\* line 413: the table dfactors holds the indices 0..divfactors
divfactors == (5 * powersize) \div FFTUSE
\* line 184: the passes of the sample loop
StatSamples == 15625
\* line 187: the index of factors[] in pass isamp of a launch with
\* argument nproc
FactorIndex(nproc, isamp) == nproc + isamp + 1
\* line 192: the divisor of estd
VarianceDivisor(nproc) == nproc + StatSamples - 1
\* lines 451..452: the argument of the last launch; processed advances
\* right after it
LaunchProcessed == processed - (powersize \div FFTUSE)
\* the passes of the sample loop looked at: both ends and their neighbours
\* (FactorIndex grows by 1 with isamp)
SamplePasses == {0, 1, StatSamples - 2, StatSamples - 1}

\* C11: every launch of the estimator takes for processed the number of
\* samples the earlier launches consumed (15625 each, never reset), reads
\* the table at processed + i + 1 for i in 0..15624, an index in 1..78125
\* and never 0, and divides the variance accumulator by the last index
\* less 1.
C11_FactorIndexInTable ==
    calibiters > 0 =>
        /\ LaunchProcessed = (calibiters - 1) * StatSamples
        /\ \A i \in SamplePasses :
              /\ FactorIndex(LaunchProcessed, i) \in 1..divfactors
              /\ FactorIndex(LaunchProcessed, i) # 0
        /\ divfactors = 78125
        /\ VarianceDivisor(LaunchProcessed)
              = FactorIndex(LaunchProcessed, StatSamples - 1) - 1

----------------------------------------------------------------------------
(* Lanes of one work-group of UnpackKernel, interleaved                    *)
(* Each lane runs lines 74..90: per pass (one ipol of one isamp) it stores *)
(* its byte in incoming[threadIdx.x], waits at __syncthreads(), and reads  *)
(* four slots of incoming[].  The lanes followed are lanes 0 and 1 and the *)
(* owners of the slots these two read; a read of a slot whose owner is not *)
(* followed is a step that records nothing.  Work-group 0 is followed.     *)

GroupLanes == {0, 1, 256, 512, 768}

\* passes followed from the start of the kernel (2 per isamp)
RacePasses == 3

\* lines 74 and 76: the polarisation and the isamp of a pass
PassPol(p) == p % 2
PassSamp(p) == p \div 2

\* line 77: what lane j stores in incoming[j] in pass p, as the place of the
\* byte in the input (idx grows by blockDim.x per isamp, line 88)
StagedIn(p, j) ==
    [pol |-> PassPol(p), byte |-> FirstIdx(0, j) + PassSamp(p) * UnpackThreads]

\* lane u is at or past the barrier of pass p
Arrived(u, p) ==
    glane[u].pass > p \/ (glane[u].pass = p /\ glane[u].pc # "load")

GroupInit ==
    /\ glane = [t \in GroupLanes |-> [pc |-> "load", pass |-> 0, ichunk |-> 0]]
    /\ gincoming = [j \in GroupLanes |-> NoByte]
    /\ gread = NoRead
    /\ PipelineIdle /\ DecodeIdle /\ UnpackIdle /\ DetectIdle /\ QuantIdle

\* line 77: incoming[threadIdx.x] = in[ipol][idx]
GroupLoad(t) ==
    /\ glane[t].pc = "load"
    /\ glane[t].pass < RacePasses
    /\ gincoming' = [gincoming EXCEPT ![t] = StagedIn(glane[t].pass, t)]
    /\ glane' = [glane EXCEPT ![t].pc = "sync"]
    /\ UNCHANGED gread

\* line 78: __syncthreads() lets a lane go on when every lane has arrived
GroupSync(t) ==
    /\ glane[t].pc = "sync"
    /\ \A u \in GroupLanes : Arrived(u, glane[t].pass)
    /\ glane' = [glane EXCEPT ![t].pc = "read", ![t].ichunk = 0]
    /\ UNCHANGED <<gincoming, gread>>

\* lines 80..85: one pass of the ichunk loop, and after the fourth the next
\* ipol or isamp
GroupRead(t) ==
    /\ glane[t].pc = "read"
    /\ LET slot == StageSlot(t, glane[t].ichunk)
       IN  gread' = IF slot \in GroupLanes
                    THEN [n |-> 1, lane |-> t, pass |-> glane[t].pass,
                          slot |-> slot, got |-> gincoming[slot]]
                    ELSE gread
    /\ glane' = IF glane[t].ichunk < 3
                THEN [glane EXCEPT ![t].ichunk = @ + 1]
                ELSE [glane EXCEPT ![t].ichunk = 0, ![t].pass = @ + 1,
                                   ![t].pc = "load"]
    /\ UNCHANGED gincoming

GroupNext ==
    /\ \E t \in GroupLanes : GroupLoad(t) \/ GroupSync(t) \/ GroupRead(t)
    /\ UNCHANGED <<pvars, cvars, uvars, kvars, qvars>>

SpecGroup == GroupInit /\ [][GroupNext]_vars

\* C12: every read of incoming[] returns the byte its owner lane loaded for
\* the polarisation and the loop iteration of the reading lane, whatever
\* the interleaving of the lanes.
C12_NoStagingRace ==
    gread.n > 0 => gread.got = StagedIn(gread.pass, gread.slot)

----------------------------------------------------------------------------
(* Termination of main()                                                   *)

\* main() is one control thread that runs whenever it can take a step
SpecLive == Init /\ [][Next]_vars /\ WF_vars(Next)

\* an iteration that starts here ends here: the guard holds, and the frame
\* loop of lines 435..440 (498..503) leaves both streams as they are.  The
\* guards read nothing but the streams and the lengths taken at line 297,
\* so the loop never ends.
CalibSpins ==
    /\ pc = "calib"
    /\ CalibGuard(filepola, filepolb)
    /\ ReadAccumulation(filepola).f = filepola
    /\ ReadAccumulation(filepolb).f = filepolb
ProduceSpins ==
    /\ pc = "produce"
    /\ ProduceGuard(filepola, filepolb, filelengtha, filelengthb)
    /\ ReadAccumulation(filepola).f = filepola
    /\ ReadAccumulation(filepolb).f = filepolb

\* C13: whatever the two input lengths, no loop gets into a state in which
\* its guard stays true for ever after a read hit end of file, and the run
\* reaches its end.
C13_Terminates ==
    /\ [](~CalibSpins /\ ~ProduceSpins)
    /\ <>(pc = "done")

----------------------------------------------------------------------------
(* The power buffers of Phase 2                                            *)

\* line 364: bytes of the device buffer devpower
DevPowerBytes(bits) == powersize * (bits \div 8)
\* line 343: bytes of the host buffer tmppower
HostPowerBytes(bits) == (powersize * bits) \div 8
\* lines 552 and 569: bytes copied back and appended to the output
CopiedBytes(bits) == (powersize * bits) \div 8
\* the element of out[]: float for DetectKernel (line 96), unsigned char for
\* DetectScaleKernel (line 121)
ElementBytes(kernel) == IF kernel = "DetectScaleKernel" THEN 1 ELSE 4
\* lines 97, 116 and 122, 149: the largest index of out[] a launch of
\* <<<25, FFTUSE>>> stores to (lane 0 of the last work-group, last pass)
LastOutIdx == DetectFirstOut(DetectBlocks - 1, 0) + (PERBLOCK - 1) * FFTUSE
\* bytes of devpower from its start to the end of the last element stored
KernelBytes(kernel) == (LastOutIdx + 1) * ElementBytes(kernel)

\* C14: for every bit depth of the output header, the detector of each
\* Phase 2 iteration stores inside the device power buffer, and the bytes
\* copied back and appended to the output are as many as the detector
\* stored: 1 per sample when quantizing, 4 per sample otherwise.
C14_PowerBufferBounds ==
    \A blk \in Blocks :
        /\ KernelBytes(blk.kernel) <= DevPowerBytes(nbits)
        /\ CopiedBytes(nbits) = KernelBytes(blk.kernel)
        /\ CopiedBytes(nbits) <= HostPowerBytes(nbits)
        /\ KernelBytes(blk.kernel) = powersize * ElementBytes(blk.kernel)

====
